---- MODULE Spec2Model ----
(***************************************************************************)
(* A model of the LinkedIn job scraper (scraper/linkedin.go, which holds   *)
(* both the listing/detail clients and main): the shared token-bucket      *)
(* limiter, the listing paginator goroutine (jobListings), the per-search  *)
(* coordinator goroutines and their per-identifier fetch goroutines        *)
(* (main), the merge into the jobGroups tree, and the two persistence      *)
(* sinks (saveJobsToSQLite, saveJobsToFile).                               *)
(*                                                                         *)
(* Eight specifications share the state:                                   *)
(*   Spec       one execution of main(): coordinators, fetches, merge, save*)
(*   SpecPag    jobListings alone with its consumer, over rich page data   *)
(*   SpecDB     saveJobsToSQLite over successive runs on one database file *)
(*   SpecFile   saveJobsToFile over successive runs on one output file     *)
(*   SpecLive   one execution of main() under fair scheduling              *)
(*   SpecSingle the concurrent single-search main of scraper/scraper.go    *)
(*   SpecSeq    the sequential main of scraper/scraper.go                  *)
(*   SpecBatch  createBatches of the batch tool (unnamed/part_000)         *)
(***************************************************************************)
EXTENDS Integers, Sequences, FiniteSets, TLC

VARIABLES
    tokens,       \* limiter: tokens in the bucket
    refilled,     \* limiter: tokens the bucket has been refilled with so far
    acquired,     \* number of limiter.Wait calls that have returned
    issued,       \* number of httpClient.Do calls made
    mainPc,       \* main goroutine: "wait" (wg.Wait), "done", "fatal"
    wg,           \* sync.WaitGroup counter of main
    coord,        \* coord[k]: coordinator goroutine k: [pc, local]
    pag,          \* pag[k]: jobListings goroutine of coordinator k
    served,       \* served[k]: the listing responses handed to paginator k
    tasks,        \* tasks[k]: the fetch goroutines of coordinator k, in spawn order
    searchWg,     \* searchWg[k]: sync.WaitGroup counter of coordinator k
    searchMu,     \* searchMu[k]: holder of coordinator k's mutex, or NoOne
    searchGroup,  \* searchGroup[k]: the SearchGroup of coordinator k
    mu,           \* holder of main's mutex, or NoOne
    jobGroups,    \* the tree: sequence of JobCategoryGroup
    db,           \* the SQLite database file
    file,         \* the JSON output file, a sequence of tokens
    now,          \* wall clock, in seconds (resolution of time.RFC3339)
    runs,         \* the committed saveJobsToSQLite calls so far: [tree, ts]
    saveErr,      \* whether the last save returned an error
    jobs,         \* scraper.go, concurrent main: the shared jobs slice
    loopJid,      \* scraper.go, sequential main: the loop variable jid, or NoOne
    printed,      \* scraper.go, sequential main: the lines written so far
    jobInputs,    \* batch tool: the jobs main read from its input file
    batches       \* batch tool: what createBatches returned

limVars  == <<tokens, refilled, acquired, issued>>
pagVars  == <<pag, served>>
taskVars == <<tasks, searchWg, searchMu, searchGroup>>
treeVars == <<mu, jobGroups>>
sinkVars == <<db, file, now, runs, saveErr>>
otherVars == <<jobs, loopJid, printed, jobInputs, batches>>
vars == <<limVars, mainPc, wg, coord, pagVars, taskVars, treeVars, sinkVars,
          otherVars>>

NoOne == <<>>

(***************************************************************************)
(* Generic helpers on sequences.                                           *)
(***************************************************************************)
RECURSIVE Flatten(_)
Flatten(ss) == IF ss = <<>> THEN <<>> ELSE Head(ss) \o Flatten(Tail(ss))

RECURSIVE SumSeq(_)
SumSeq(s) == IF s = <<>> THEN 0 ELSE Head(s) + SumSeq(Tail(s))

MapSeq(f(_), s) == [i \in 1..Len(s) |-> f(s[i])]

Min(S) == CHOOSE x \in S : \A y \in S : x <= y
Max(S) == CHOOSE x \in S : \A y \in S : x >= y

SeqsUpTo(S, n) == UNION {[1..m -> S] : m \in 0..n}

(***************************************************************************)
(* Configuration: getJobCategories.  The source lists two categories of    *)
(* two search terms each; the model keeps two categories, the first with   *)
(* two terms (two coordinators appending to one Searches list) and the     *)
(* second with one.                                                        *)
(***************************************************************************)
getJobCategories ==
    << [Category |-> "Data Science",
        SearchTerms |-> <<"data scientist", "data science">>],
       [Category |-> "Security",
        SearchTerms |-> <<"security engineer">>] >>

\* The (category, searchTerm) pairs in the order main's loops spawn them.
RECURSIVE PairsOf(_)
PairsOf(cats) ==
    IF cats = <<>> THEN <<>>
    ELSE [i \in 1..Len(Head(cats).SearchTerms) |->
             [category |-> Head(cats).Category,
              searchTerm |-> Head(cats).SearchTerms[i]]]
         \o PairsOf(Tail(cats))

Pairs == PairsOf(getJobCategories)
Coords == 1..Len(Pairs)

(***************************************************************************)
(* The limiter: rate.NewLimiter(10, 1), a token bucket of capacity Burst   *)
(* that starts full and gains one token every 1/10 s while not full.       *)
(***************************************************************************)
Burst == 1

\* Mutant of LimiterHasToken: Wait returns without a token being there.
LimiterNeverWaits == TRUE

LimiterHasToken == tokens >= 1

\* limiter.Wait(context.TODO()) returning: one token is taken.
LimiterTake ==
    /\ LimiterHasToken
    /\ tokens' = tokens - 1
    /\ acquired' = acquired + 1
    /\ UNCHANGED refilled

\* Time passing: the bucket gains a token.
Refill ==
    /\ tokens < Burst
    /\ tokens' = tokens + 1
    /\ refilled' = refilled + 1
    /\ UNCHANGED <<acquired, issued, mainPc, wg, coord, pagVars, taskVars,
                   treeVars, sinkVars,
                   otherVars>>


(***************************************************************************)
(* A goroutine that panics (jobListings indexing an empty                  *)
(* JobCardPrefetchQueries) takes the whole process down.                   *)
(***************************************************************************)
Crashed == \E k \in Coords : pag[k].pc = "panic"
Alive == ~Crashed /\ mainPc \notin {"done", "fatal"}

(***************************************************************************)
(* Identifiers.  The listing API hands out URNs, modelled as token         *)
(* sequences <<prefix, id, suffix>>; jobListings strips the wrapper with   *)
(* two strings.ReplaceAll calls and sends what is left as the JobID.       *)
(***************************************************************************)
UrnPrefix == "urn:li:fsd_jobPostingCard:("
UrnSuffix == ",JOB_DETAILS)"

Urn(id) == <<UrnPrefix, id, UrnSuffix>>

ReplaceAll(s, old) == SelectSeq(s, LAMBDA t : t # old)

UrnToJobID(urn) == ReplaceAll(ReplaceAll(urn, UrnPrefix), UrnSuffix)

(***************************************************************************)
(* The listing API's answers to one page request.                          *)
(***************************************************************************)
ListingErrors == {"transport", "status", "decode"}

OkPage(urns, total) == [kind |-> "ok", urns |-> urns, total |-> total]
BadPage(kind) == [kind |-> kind, urns |-> <<>>, total |-> 0]

\* Every page of at most maxLen URNs over ids, reporting a total up to maxTotal.
OkPages(ids, maxLen, maxTotal) ==
    {OkPage(u, t) : u \in SeqsUpTo({Urn(id) : id \in ids}, maxLen),
                    t \in 0..maxTotal}

(***************************************************************************)
(* jobListings: the paginator goroutine of coordinator k.                  *)
(*   pc     "idle" (not started), "wait" (at limiter.Wait), "req" (at      *)
(*          httpClient.Do), "send" (at result <- id), "closed" (returned,  *)
(*          channel closed by the defer), "panic"                          *)
(*   start  the offset of the next page                                    *)
(*   page   the URNs of the page being sent, cur the ones still to send    *)
(*   total  content.Paging.Total of the page being sent                    *)
(*   tok    tokens acquired since this goroutine's last request            *)
(*   err    the error that was logged before returning, or "none"          *)
(***************************************************************************)
MaxPages == 3

PagInit == [pc |-> "idle", start |-> 0, page |-> <<>>, cur |-> <<>>,
            total |-> 0, tok |-> 0, err |-> "none"]

\* Mutant of EndOfPage: the loop goes back to the request, not to the limiter.
EndOfPageNoWait(p) ==
    LET start2 == p.start + Len(p.page)
        done   == start2 >= p.total
    IN  [p EXCEPT !.start = start2, !.cur = <<>>,
                  !.pc = IF done THEN "closed" ELSE "req"]

\* Mutant of EndOfPage: the offset is set to the page length, not advanced.
EndOfPageOffsetReset(p) ==
    LET start2 == Len(p.page)
        done   == start2 >= p.total
    IN  [p EXCEPT !.start = start2, !.cur = <<>>,
                  !.pc = IF done THEN "closed" ELSE "wait"]

\* Lines 85-86 and the loop test: advance the offset, stop at the total.
EndOfPage(p) ==
    LET start2 == p.start + Len(p.page)
        done   == start2 >= p.total
    IN  [p EXCEPT !.start = start2, !.cur = <<>>,
                  !.pc = IF done THEN "closed" ELSE "wait"]

\* Line 62: limiter.Wait before the page request.
PagWait(k) ==
    /\ Alive
    /\ pag[k].pc = "wait"
    /\ Len(served[k]) < MaxPages
    /\ LimiterTake
    /\ pag' = [pag EXCEPT ![k].pc = "req", ![k].tok = @ + 1]
    /\ UNCHANGED <<issued, mainPc, wg, coord, served, taskVars, treeVars, sinkVars,
                   otherVars>>

\* Mutant of AfterResponse: a failed request ends the process (log.Fatalf).
AfterResponseFatal(p, r) ==
    IF r.kind \in ListingErrors \/ r.kind = "noQueries"
        THEN [p EXCEPT !.pc = "panic", !.err = r.kind, !.tok = 0]
    ELSE LET q == [p EXCEPT !.page = r.urns, !.cur = r.urns,
                            !.total = r.total, !.tok = 0]
         IN  IF r.urns = <<>> THEN EndOfPage(q) ELSE [q EXCEPT !.pc = "send"]

\* The paginator's state after the response r (lines 63-86).
AfterResponse(p, r) ==
    IF r.kind \in ListingErrors
        THEN [p EXCEPT !.pc = "closed", !.err = r.kind, !.tok = 0]
    ELSE IF r.kind = "noQueries"
        THEN [p EXCEPT !.pc = "panic", !.tok = 0]
    ELSE LET q == [p EXCEPT !.page = r.urns, !.cur = r.urns,
                            !.total = r.total, !.tok = 0]
         IN  IF r.urns = <<>> THEN EndOfPage(q) ELSE [q EXCEPT !.pc = "send"]

\* Lines 63-79: httpClient.Do and the decoding of its response.
PagRequest(k, Resps) ==
    /\ Alive
    /\ pag[k].pc = "req"
    /\ \E r \in Resps :
          /\ served' = [served EXCEPT ![k] = Append(@, r)]
          /\ pag' = [pag EXCEPT ![k] = AfterResponse(pag[k], r)]
    /\ issued' = issued + 1
    /\ UNCHANGED <<tokens, refilled, acquired, mainPc, wg, coord, taskVars,
                   treeVars, sinkVars,
                   otherVars>>

\* The paginator after its pending send has been received (lines 81-86).
AfterSend(p) ==
    IF Len(p.cur) > 1 THEN [p EXCEPT !.cur = Tail(@)] ELSE EndOfPage(p)

(***************************************************************************)
(* The detail API's answers and jobPostings' result.                       *)
(***************************************************************************)
DetailErrors == {"transport", "status", "decode"}

Body(c, d, t) == [Company |-> c, Description |-> d, Title |-> t]
NoBody == Body("", "", "")

OkDetail(body) == [kind |-> "ok", body |-> body]
BadDetail(kind) == [kind |-> kind, body |-> NoBody]

\* Lines 117-122.
JobPosting(jid, body) ==
    [JobID |-> jid, Company |-> body.Company,
     Description |-> body.Description, Title |-> body.Title]

NoJob == JobPosting(<<>>, NoBody)

(***************************************************************************)
(* The fetch goroutine i of coordinator k (main, lines 251-266, with       *)
(* jobPostings inlined).                                                   *)
(*   pc    "wait1" (limiter.Wait in the goroutine), "wait2" (limiter.Wait  *)
(*         in jobPostings), "req" (httpClient.Do), "lock" (searchMu.Lock), *)
(*         "write" (holding searchMu, storing the appended slice), "done"  *)
(*   local the slice header read by append                                 *)
(*   tok   tokens acquired since this goroutine's last request             *)
(*   reqs  requests this goroutine has issued                              *)
(***************************************************************************)
NewTask(jid) == [jid |-> jid, pc |-> "wait1", tok |-> 0, reqs |-> 0,
                 job |-> NoJob, local |-> <<>>, failed |-> FALSE]

TaskAt(k, i, pc) == i \in 1..Len(tasks[k]) /\ tasks[k][i].pc = pc

\* Mutant of TaskWait1: the goroutine goes on to jobPostings without a token.
TaskWait1NoToken(k, i) ==
    /\ Alive
    /\ TaskAt(k, i, "wait1")
    /\ tasks' = [tasks EXCEPT ![k][i].pc = "wait2"]
    /\ UNCHANGED <<limVars, mainPc, wg, coord, pagVars, searchWg, searchMu,
                   searchGroup, treeVars, sinkVars,
                   otherVars>>

\* Line 254.
TaskWait1(k, i) ==
    /\ Alive
    /\ TaskAt(k, i, "wait1")
    /\ LimiterTake
    /\ tasks' = [tasks EXCEPT ![k][i].pc = "wait2", ![k][i].tok = @ + 1]
    /\ UNCHANGED <<issued, mainPc, wg, coord, pagVars, searchWg, searchMu,
                   searchGroup, treeVars, sinkVars,
                   otherVars>>

\* Line 100.
TaskWait2(k, i) ==
    /\ Alive
    /\ TaskAt(k, i, "wait2")
    /\ LimiterTake
    /\ tasks' = [tasks EXCEPT ![k][i].pc = "req", ![k][i].tok = @ + 1]
    /\ UNCHANGED <<issued, mainPc, wg, coord, pagVars, searchWg, searchMu,
                   searchGroup, treeVars, sinkVars,
                   otherVars>>

\* Mutant of TaskRequest: a request that failed is made once more.
TaskRequestRetry(k, i, Resps) ==
    /\ Alive
    /\ TaskAt(k, i, "req")
    /\ issued' = issued + 1
    /\ \E r \in Resps :
          IF r.kind = "ok"
            THEN /\ tasks' = [tasks EXCEPT
                        ![k][i].pc = "lock", ![k][i].tok = 0,
                        ![k][i].reqs = @ + 1,
                        ![k][i].job = JobPosting(tasks[k][i].jid, r.body)]
                 /\ UNCHANGED searchWg
          ELSE IF tasks[k][i].reqs = 0
            THEN /\ tasks' = [tasks EXCEPT
                        ![k][i].pc = "wait2", ![k][i].tok = 0,
                        ![k][i].reqs = @ + 1]
                 /\ UNCHANGED searchWg
            ELSE /\ tasks' = [tasks EXCEPT
                        ![k][i].pc = "done", ![k][i].tok = 0,
                        ![k][i].reqs = @ + 1,
                        ![k][i].failed = TRUE]
                 /\ searchWg' = [searchWg EXCEPT ![k] = @ - 1]
    /\ UNCHANGED <<tokens, refilled, acquired, mainPc, wg, coord, pagVars,
                   searchMu, searchGroup, treeVars, sinkVars,
                   otherVars>>

\* Lines 102-122 and 258-261: the request; a failure is logged and the
\* goroutine returns (defer searchWg.Done).
TaskRequest(k, i, Resps) ==
    /\ Alive
    /\ TaskAt(k, i, "req")
    /\ issued' = issued + 1
    /\ \E r \in Resps :
          IF r.kind = "ok"
            THEN /\ tasks' = [tasks EXCEPT
                        ![k][i].pc = "lock", ![k][i].tok = 0,
                        ![k][i].reqs = @ + 1,
                        ![k][i].job = JobPosting(tasks[k][i].jid, r.body)]
                 /\ UNCHANGED searchWg
            ELSE /\ tasks' = [tasks EXCEPT
                        ![k][i].pc = "done", ![k][i].tok = 0,
                        ![k][i].reqs = @ + 1,
                        ![k][i].failed = TRUE]
                 /\ searchWg' = [searchWg EXCEPT ![k] = @ - 1]
    /\ UNCHANGED <<tokens, refilled, acquired, mainPc, wg, coord, pagVars,
                   searchMu, searchGroup, treeVars, sinkVars,
                   otherVars>>

\* Mutant of SearchMuFree: searchMu.Lock excludes no one.
SearchMuAlwaysFree(k) == TRUE

SearchMuFree(k) == searchMu[k] = NoOne

\* Lines 263-264: searchMu.Lock, then append reads the slice.
TaskLock(k, i) ==
    /\ Alive
    /\ TaskAt(k, i, "lock")
    /\ SearchMuFree(k)
    /\ searchMu' = [searchMu EXCEPT ![k] = <<i>>]
    /\ tasks' = [tasks EXCEPT ![k][i].pc = "write",
                              ![k][i].local = searchGroup[k].Jobs]
    /\ UNCHANGED <<limVars, mainPc, wg, coord, pagVars, searchWg, searchGroup,
                   treeVars, sinkVars,
                   otherVars>>

\* Mutant of TaskAppend: the goroutine returns without searchWg.Done.
TaskAppendNoDone(k, i) ==
    /\ Alive
    /\ TaskAt(k, i, "write")
    /\ searchGroup' = [searchGroup EXCEPT
                          ![k].Jobs = Append(tasks[k][i].local, tasks[k][i].job)]
    /\ searchMu' = [searchMu EXCEPT ![k] = NoOne]
    /\ tasks' = [tasks EXCEPT ![k][i].pc = "done"]
    /\ UNCHANGED <<limVars, mainPc, wg, coord, pagVars, searchWg, treeVars, sinkVars,
                   otherVars>>

\* Lines 264-265: the appended slice is stored, searchMu.Unlock, and the
\* goroutine returns (defer searchWg.Done).
TaskAppend(k, i) ==
    /\ Alive
    /\ TaskAt(k, i, "write")
    /\ searchGroup' = [searchGroup EXCEPT
                          ![k].Jobs = Append(tasks[k][i].local, tasks[k][i].job)]
    /\ searchMu' = [searchMu EXCEPT ![k] = NoOne]
    /\ tasks' = [tasks EXCEPT ![k][i].pc = "done"]
    /\ searchWg' = [searchWg EXCEPT ![k] = @ - 1]
    /\ UNCHANGED <<limVars, mainPc, wg, coord, pagVars, treeVars, sinkVars,
                   otherVars>>


(***************************************************************************)
(* The coordinator goroutine k of main (lines 234-281).                    *)
(*   pc    "wait" (limiter.Wait), "range" (receiving from listings),       *)
(*         "searchWait" (searchWg.Wait), "lock" (mu.Lock), "write"         *)
(*         (holding mu, storing the appended Searches), "done"             *)
(*   local the Searches slice read by append                               *)
(***************************************************************************)
CoordInit == [pc |-> "wait", local |-> <<>>]

NewSearchGroup(k) == [SearchTerm |-> Pairs[k].searchTerm, Jobs |-> <<>>]

\* Lines 237-247: the coordinator's own token, then jobListings starts the
\* paginator goroutine.
CoordStart(k) ==
    /\ Alive
    /\ coord[k].pc = "wait"
    /\ LimiterTake
    /\ coord' = [coord EXCEPT ![k].pc = "range"]
    /\ pag' = [pag EXCEPT ![k].pc = "wait"]
    /\ UNCHANGED <<issued, mainPc, wg, served, taskVars, treeVars, sinkVars,
                   otherVars>>

\* Lines 249-251 against line 82: the paginator's send meets the range
\* loop's receive on the unbuffered channel; searchWg.Add(1) and the fetch
\* goroutine is started.
CoordRecv(k) ==
    /\ Alive
    /\ coord[k].pc = "range"
    /\ pag[k].pc = "send"
    /\ tasks' = [tasks EXCEPT
                    ![k] = Append(@, NewTask(UrnToJobID(Head(pag[k].cur))))]
    /\ searchWg' = [searchWg EXCEPT ![k] = @ + 1]
    /\ pag' = [pag EXCEPT ![k] = AfterSend(pag[k])]
    /\ UNCHANGED <<limVars, mainPc, wg, coord, served, searchMu, searchGroup,
                   treeVars, sinkVars,
                   otherVars>>

\* Line 249: the channel is closed, the range loop ends.
CoordRangeEnd(k) ==
    /\ Alive
    /\ coord[k].pc = "range"
    /\ pag[k].pc = "closed"
    /\ coord' = [coord EXCEPT ![k].pc = "searchWait"]
    /\ UNCHANGED <<limVars, mainPc, wg, pagVars, taskVars, treeVars, sinkVars,
                   otherVars>>

\* Mutant of SearchWgZero: searchWg.Wait returns at once.
SearchWgIgnored(k) == TRUE

SearchWgZero(k) == searchWg[k] = 0

\* Mutant of CoordSearchWait: the group is merged whatever its length.
CoordSearchWaitAlways(k) ==
    /\ Alive
    /\ coord[k].pc = "searchWait"
    /\ SearchWgZero(k)
    /\ coord' = [coord EXCEPT ![k].pc = "lock"]
    /\ UNCHANGED <<limVars, mainPc, wg, pagVars, taskVars, treeVars, sinkVars,
                   otherVars>>

\* Mutant of CoordSearchWait: the group of a listing that ended on an error
\* is not merged.
CoordSearchWaitDropsFailed(k) ==
    /\ Alive
    /\ coord[k].pc = "searchWait"
    /\ SearchWgZero(k)
    /\ IF Len(searchGroup[k].Jobs) > 0 /\ pag[k].err = "none"
         THEN /\ coord' = [coord EXCEPT ![k].pc = "lock"]
              /\ UNCHANGED wg
         ELSE /\ coord' = [coord EXCEPT ![k].pc = "done"]
              /\ wg' = wg - 1
    /\ UNCHANGED <<limVars, mainPc, pagVars, taskVars, treeVars, sinkVars,
                   otherVars>>

\* Lines 269-271: searchWg.Wait returns; an empty group is not merged and
\* the goroutine returns (defer wg.Done).
CoordSearchWait(k) ==
    /\ Alive
    /\ coord[k].pc = "searchWait"
    /\ SearchWgZero(k)
    /\ IF Len(searchGroup[k].Jobs) > 0
         THEN /\ coord' = [coord EXCEPT ![k].pc = "lock"]
              /\ UNCHANGED wg
         ELSE /\ coord' = [coord EXCEPT ![k].pc = "done"]
              /\ wg' = wg - 1
    /\ UNCHANGED <<limVars, mainPc, pagVars, taskVars, treeVars, sinkVars,
                   otherVars>>

\* Lines 273-274: the index of the first group of the category, 0 if none.
CategoryIndex(groups, category) ==
    LET hits == {i \in 1..Len(groups) : groups[i].Category = category}
    IN  IF hits = {} THEN 0 ELSE CHOOSE i \in hits : \A j \in hits : i <= j

\* Mutant of MuFree: mu.Lock excludes no one.
MuAlwaysFree == TRUE

MuFree == mu = NoOne

\* Lines 272-275: mu.Lock, then append reads the category's Searches.
CoordLock(k) ==
    /\ Alive
    /\ coord[k].pc = "lock"
    /\ MuFree
    /\ mu' = <<k>>
    /\ LET i == CategoryIndex(jobGroups, Pairs[k].category)
       IN  coord' = [coord EXCEPT
                        ![k].pc = "write",
                        ![k].local = IF i = 0 THEN <<>> ELSE jobGroups[i].Searches]
    /\ UNCHANGED <<limVars, mainPc, wg, pagVars, taskVars, jobGroups, sinkVars,
                   otherVars>>

\* Lines 275-279: the appended Searches is stored, mu.Unlock, and the
\* goroutine returns (defer wg.Done).
CoordAppend(k) ==
    /\ Alive
    /\ coord[k].pc = "write"
    /\ LET i == CategoryIndex(jobGroups, Pairs[k].category)
       IN  jobGroups' = IF i = 0 THEN jobGroups
                        ELSE [jobGroups EXCEPT
                                 ![i].Searches = Append(coord[k].local, searchGroup[k])]
    /\ mu' = NoOne
    /\ coord' = [coord EXCEPT ![k].pc = "done"]
    /\ wg' = wg - 1
    /\ UNCHANGED <<limVars, mainPc, pagVars, taskVars, sinkVars,
                   otherVars>>

\* Lines 220-228: jobGroups with one empty group per category.
InitialJobGroups ==
    [i \in 1..Len(getJobCategories) |->
        [Category |-> getJobCategories[i].Category, Searches |-> <<>>]]


(***************************************************************************)
(* The SQLite database: five tables, each the sequence of its rows in      *)
(* insertion order, and the AUTOINCREMENT counters of the two id columns.  *)
(***************************************************************************)
EmptyDB ==
    [jobs |-> <<>>, categories |-> <<>>, jobs_categories |-> <<>>,
     searches |-> <<>>, searches_jobs |-> <<>>,
     seqCategories |-> 0, seqSearches |-> 0]

\* The rows of table t that satisfy P.
Rows(t, P(_)) == SelectSeq(t, P)

HasJob(d, jid) == \E i \in 1..Len(d.jobs) : d.jobs[i].job_id = jid
HasCategoryID(d, cid) ==
    \E i \in 1..Len(d.categories) : d.categories[i].category_id = cid
HasSearchID(d, sid) ==
    \E i \in 1..Len(d.searches) : d.searches[i].search_id = sid

\* Lines 385-388: INSERT INTO categories ... ON CONFLICT(category_name) DO
\* UPDATE SET category_name=category_name RETURNING category_id.
UpsertCategory(d, name) ==
    LET hit == Rows(d.categories, LAMBDA r : r.category_name = name)
    IN  IF hit # <<>>
          THEN [db |-> d, id |-> hit[1].category_id]
          ELSE [db |-> [d EXCEPT
                          !.categories = Append(@, [category_id |-> d.seqCategories + 1,
                                                    category_name |-> name]),
                          !.seqCategories = @ + 1],
                id |-> d.seqCategories + 1]

\* Mutant of UpsertSearch: INSERT OR REPLACE, a conflicting row is deleted
\* and the term inserted again under a new search_id.
UpsertSearchReplace(d, term) ==
    [db |-> [d EXCEPT
               !.searches = Append(SelectSeq(@, LAMBDA r : r.search_term # term),
                                   [search_id |-> d.seqSearches + 1,
                                    search_term |-> term]),
               !.seqSearches = @ + 1],
     id |-> d.seqSearches + 1]

\* Lines 396-399: the same upsert on searches, keyed by search_term.
UpsertSearch(d, term) ==
    LET hit == Rows(d.searches, LAMBDA r : r.search_term = term)
    IN  IF hit # <<>>
          THEN [db |-> d, id |-> hit[1].search_id]
          ELSE [db |-> [d EXCEPT
                          !.searches = Append(@, [search_id |-> d.seqSearches + 1,
                                                  search_term |-> term]),
                          !.seqSearches = @ + 1],
                id |-> d.seqSearches + 1]

\* Mutant of InsertJob: a plain INSERT into a table without its key.
InsertJobAlways(d, job) ==
    [d EXCEPT !.jobs = Append(@, [job_id |-> job.JobID,
                                  company |-> job.Company,
                                  description |-> job.Description,
                                  title |-> job.Title])]

\* Mutant of InsertJob: INSERT OR REPLACE, the row takes the new fields.
InsertJobReplace(d, job) ==
    IF HasJob(d, job.JobID)
      THEN [d EXCEPT !.jobs =
               [i \in 1..Len(@) |->
                   IF @[i].job_id = job.JobID
                     THEN [job_id |-> job.JobID, company |-> job.Company,
                           description |-> job.Description, title |-> job.Title]
                     ELSE @[i]]]
      ELSE [d EXCEPT !.jobs = Append(@, [job_id |-> job.JobID,
                                         company |-> job.Company,
                                         description |-> job.Description,
                                         title |-> job.Title])]

\* Lines 406-409: INSERT OR IGNORE INTO jobs, keyed by job_id.
InsertJob(d, job) ==
    IF HasJob(d, job.JobID) THEN d
    ELSE [d EXCEPT !.jobs = Append(@, [job_id |-> job.JobID,
                                       company |-> job.Company,
                                       description |-> job.Description,
                                       title |-> job.Title])]

\* Mutant of InsertJobCategory: the row is written with another category_id.
InsertJobCategoryDangling(d, jid, cid) ==
    [d EXCEPT !.jobs_categories = Append(@, [job_id |-> jid, category_id |-> cid + 1])]

\* Mutant of InsertJobCategory: a plain INSERT into a table without its key.
InsertJobCategoryAlways(d, jid, cid) ==
    [d EXCEPT !.jobs_categories = Append(@, [job_id |-> jid, category_id |-> cid])]

\* Lines 415-417: INSERT OR IGNORE INTO jobs_categories, keyed by the pair.
InsertJobCategory(d, jid, cid) ==
    IF \E i \in 1..Len(d.jobs_categories) :
           d.jobs_categories[i] = [job_id |-> jid, category_id |-> cid]
      THEN d
      ELSE [d EXCEPT !.jobs_categories =
                        Append(@, [job_id |-> jid, category_id |-> cid])]

\* Mutant of UpsertSearchJob: the conflict clause sets both timestamps.
UpsertSearchJobOverwrite(d, sid, jid, timestamp) ==
    IF \E i \in 1..Len(d.searches_jobs) :
           d.searches_jobs[i].search_id = sid /\ d.searches_jobs[i].job_id = jid
      THEN [d EXCEPT !.searches_jobs =
               [i \in 1..Len(@) |->
                   IF @[i].search_id = sid /\ @[i].job_id = jid
                     THEN [@[i] EXCEPT !.first_seen = timestamp,
                                       !.last_seen = timestamp]
                     ELSE @[i]]]
      ELSE [d EXCEPT !.searches_jobs =
               Append(@, [search_id |-> sid, job_id |-> jid,
                          first_seen |-> timestamp, last_seen |-> timestamp])]

\* Lines 423-427: INSERT INTO searches_jobs ... ON CONFLICT(search_id,
\* job_id) DO UPDATE SET last_seen = ?.
UpsertSearchJob(d, sid, jid, timestamp) ==
    IF \E i \in 1..Len(d.searches_jobs) :
           d.searches_jobs[i].search_id = sid /\ d.searches_jobs[i].job_id = jid
      THEN [d EXCEPT !.searches_jobs =
               [i \in 1..Len(@) |->
                   IF @[i].search_id = sid /\ @[i].job_id = jid
                     THEN [@[i] EXCEPT !.last_seen = timestamp]
                     ELSE @[i]]]
      ELSE [d EXCEPT !.searches_jobs =
               Append(@, [search_id |-> sid, job_id |-> jid,
                          first_seen |-> timestamp, last_seen |-> timestamp])]

(***************************************************************************)
(* The statements saveJobsToSQLite executes inside its transaction, in     *)
(* the order of its three nested loops (lines 382-433).                    *)
(***************************************************************************)
Stmt(op, term, job) == [op |-> op, term |-> term, job |-> job]

JobStmts(job) ==
    << Stmt("job", "", job), Stmt("job_category", "", job),
       Stmt("search_job", "", job) >>

SearchStmts(sg) ==
    <<Stmt("search", sg.SearchTerm, NoJob)>>
    \o Flatten([i \in 1..Len(sg.Jobs) |-> JobStmts(sg.Jobs[i])])

CategoryStmts(g) ==
    <<Stmt("category", g.Category, NoJob)>>
    \o Flatten([i \in 1..Len(g.Searches) |-> SearchStmts(g.Searches[i])])

Statements(tree) == Flatten([i \in 1..Len(tree) |-> CategoryStmts(tree[i])])

\* One statement on the transaction's state: the uncommitted database, the
\* loop variables categoryID and searchID, and whether a statement failed.
\* With foreign_keys ON an association to a missing row is an error.
Exec(tx, st, timestamp) ==
    IF st.op = "category" THEN
        LET r == UpsertCategory(tx.db, st.term)
        IN  [tx EXCEPT !.db = r.db, !.categoryID = r.id]
    ELSE IF st.op = "search" THEN
        LET r == UpsertSearch(tx.db, st.term)
        IN  [tx EXCEPT !.db = r.db, !.searchID = r.id]
    ELSE IF st.op = "job" THEN
        [tx EXCEPT !.db = InsertJob(tx.db, st.job)]
    ELSE IF st.op = "job_category" THEN
        IF HasJob(tx.db, st.job.JobID) /\ HasCategoryID(tx.db, tx.categoryID)
          THEN [tx EXCEPT !.db = InsertJobCategory(tx.db, st.job.JobID, tx.categoryID)]
          ELSE [tx EXCEPT !.err = TRUE]
    ELSE
        IF HasJob(tx.db, st.job.JobID) /\ HasSearchID(tx.db, tx.searchID)
          THEN [tx EXCEPT !.db = UpsertSearchJob(tx.db, tx.searchID,
                                                 st.job.JobID, timestamp)]
          ELSE [tx EXCEPT !.err = TRUE]

\* The statements in order, up to the first that fails.  (The state after
\* each statement is bound as a value before the next one runs.)
RECURSIVE ExecAll(_, _, _)
ExecAll(tx, stmts, timestamp) ==
    IF stmts = <<>> \/ tx.err THEN tx
    ELSE CHOOSE r \in {ExecAll(t, Tail(stmts), timestamp) :
                          t \in {Exec(tx, Head(stmts), timestamp)}} : TRUE

\* Mutant of Rollback: the error return leaves the writes made so far.
RollbackKeeps(before, uncommitted) == uncommitted

\* Line 376: defer tx.Rollback() on an error return: the database is what
\* it was when the transaction began.
Rollback(before, uncommitted) == before

\* Lines 435-439 and the error returns: commit, or roll back and report.
Outcome(before, tx, fault) ==
    IF tx.err \/ fault # 0
      THEN [db |-> Rollback(before, tx.db), err |-> TRUE]
      ELSE [db |-> tx.db, err |-> FALSE]

\* The statements that run before the fault.
Prefix(stmts, fault) ==
    IF fault = 0 THEN stmts ELSE SubSeq(stmts, 1, fault - 1)

\* Lines 371-439.  fault = 0: no I/O error; fault = j in 1..n: statement j
\* fails after statements 1..j-1 ran; fault = n+1: tx.Commit fails.
SaveJobsToSQLite(d, tree, timestamp, fault) ==
    Outcome(d,
            ExecAll([db |-> d, categoryID |-> 0, searchID |-> 0, err |-> FALSE],
                    Prefix(Statements(tree), fault), timestamp),
            fault)

(***************************************************************************)
(* The JSON file sink.  The document is a sequence of tokens, each a       *)
(* tuple of strings.                                                       *)
(***************************************************************************)
EncodeJob(j) ==
    << <<"{job">> \o j.JobID \o <<j.Company, j.Description, j.Title, "}">> >>

EncodeSearch(sg) ==
    << <<"{search", sg.SearchTerm>>, <<"[">> >>
    \o Flatten([i \in 1..Len(sg.Jobs) |-> EncodeJob(sg.Jobs[i])])
    \o << <<"]}">> >>

EncodeCategory(g) ==
    << <<"{category", g.Category>>, <<"[">> >>
    \o Flatten([i \in 1..Len(g.Searches) |-> EncodeSearch(g.Searches[i])])
    \o << <<"]}">> >>

\* json.NewEncoder(f).Encode(jobGroups): the document and a newline.
Encode(tree) ==
    << <<"[">> >>
    \o Flatten([i \in 1..Len(tree) |-> EncodeCategory(tree[i])])
    \o << <<"]">>, <<"\n">> >>

\* Lines 306-312: os.OpenFile with O_RDWR|O_CREATE, then the write at
\* offset 0: the bytes of the old content beyond the new document stay.
WriteFile(old, data) == data \o SubSeq(old, Len(data) + 1, Len(old))


(***************************************************************************)
(* main after its goroutines are started (lines 285-295): wg.Wait, then    *)
(* one of the two sinks; an error from the sink is fatal.                  *)
(***************************************************************************)
MaxClock == 2

\* Mutant of WgZero: wg.Wait returns at once.
WgIgnored == TRUE

WgZero == wg = 0

\* time.Now() read by a call that starts at clock value t: the clock may
\* have moved on by a second.
ClockReads(t) == {u \in {t, t + 1} : u <= MaxClock}

\* Lines 287-290: the SQLite sink.
PersistSQLite(tree, fault) ==
    \E timestamp \in ClockReads(now) :
        \E r \in {SaveJobsToSQLite(db, tree, timestamp, fault)} :
            /\ db' = r.db
            /\ saveErr' = r.err
            /\ now' = timestamp
            /\ runs' = IF r.err THEN runs
                       ELSE Append(runs, [tree |-> tree, ts |-> timestamp])
            /\ UNCHANGED file

\* Lines 291-294 and 298-317: the file sink; openFails stands for the
\* errors of os.MkdirAll and os.OpenFile.
PersistFile(tree, openFails) ==
    /\ file' = IF openFails THEN file ELSE WriteFile(file, Encode(tree))
    /\ saveErr' = openFails
    /\ UNCHANGED <<db, now, runs>>

MainPersist ==
    /\ Alive
    /\ mainPc = "wait"
    /\ WgZero
    /\ \/ \E fault \in {0, 1} : PersistSQLite(jobGroups, fault)
       \/ \E openFails \in BOOLEAN : PersistFile(jobGroups, openFails)
    /\ mainPc' = IF saveErr' THEN "fatal" ELSE "done"
    /\ UNCHANGED <<limVars, wg, coord, pagVars, taskVars, treeVars, otherVars>>

(***************************************************************************)
(* Spec: one execution of main.                                            *)
(***************************************************************************)
Ids == {"A", "B"}

Bodies == {Body("acme", "d1", "t1"), Body("initech", "d2", "t2")}

\* What the listing API holds for each search of Spec, in upstream order.
MainListings == << <<"A", "B">>, <<"B">>, <<"A">> >>

Listing(k) == MapSeq(Urn, MainListings[((k - 1) % Len(MainListings)) + 1])

MainPageLen == 2

\* The listing answers of Spec to the request at paginator k's offset: the
\* next 1..MainPageLen identifiers (an empty page for an empty listing)
\* with the listing's true total, or one of the three failures.
MainListing(k) ==
    LET rest == SubSeq(Listing(k), pag[k].start + 1, Len(Listing(k)))
        lens == IF rest = <<>> THEN {0}
                ELSE {n \in 1..MainPageLen : n <= Len(rest)}
    IN  {OkPage(SubSeq(rest, 1, n), Len(Listing(k))) : n \in lens}
        \cup {BadPage(e) : e \in ListingErrors}

\* The detail answers of Spec.
MainDetail == {OkDetail(CHOOSE b \in Bodies : TRUE), BadDetail("status")}

\* The state main's goroutines start from: a full bucket, empty groups,
\* wg raised once per (category, searchTerm) pair, a fresh database and file.
InitShared ==
    /\ tokens = Burst
    /\ refilled = 0
    /\ acquired = 0
    /\ issued = 0
    /\ mainPc = "wait"
    /\ wg = Len(Pairs)
    /\ served = [k \in Coords |-> <<>>]
    /\ tasks = [k \in Coords |-> <<>>]
    /\ searchWg = [k \in Coords |-> 0]
    /\ searchMu = [k \in Coords |-> NoOne]
    /\ searchGroup = [k \in Coords |-> NewSearchGroup(k)]
    /\ mu = NoOne
    /\ jobGroups = InitialJobGroups
    /\ db = EmptyDB
    /\ file = <<>>
    /\ now = 0
    /\ runs = <<>>
    /\ saveErr = FALSE
    /\ jobs = <<>>
    /\ loopJid = NoOne
    /\ printed = <<>>
    /\ jobInputs = <<>>
    /\ batches = <<>>

Init ==
    /\ InitShared
    /\ coord = [k \in Coords |-> CoordInit]
    /\ pag = [k \in Coords |-> PagInit]

Next ==
    \/ Refill
    \/ \E k \in Coords : CoordStart(k)
    \/ \E k \in Coords : PagWait(k)
    \/ \E k \in Coords : PagRequest(k, MainListing(k))
    \/ \E k \in Coords : CoordRecv(k)
    \/ \E k \in Coords : CoordRangeEnd(k)
    \/ \E k \in Coords : \E i \in 1..Len(tasks[k]) : TaskWait1(k, i)
    \/ \E k \in Coords : \E i \in 1..Len(tasks[k]) : TaskWait2(k, i)
    \/ \E k \in Coords : \E i \in 1..Len(tasks[k]) : TaskRequest(k, i, MainDetail)
    \/ \E k \in Coords : \E i \in 1..Len(tasks[k]) : TaskLock(k, i)
    \/ \E k \in Coords : \E i \in 1..Len(tasks[k]) : TaskAppend(k, i)
    \/ \E k \in Coords : CoordSearchWait(k)
    \/ \E k \in Coords : CoordLock(k)
    \/ \E k \in Coords : CoordAppend(k)
    \/ MainPersist

Spec == Init /\ [][Next]_vars


(***************************************************************************)
(* SpecPag: jobListings for one search and the range loop that consumes    *)
(* its channel, against every listing answer within the bounds.            *)
(***************************************************************************)
MaxPageLen == 2
MaxTotal == 3

PagListing ==
    OkPages(Ids, MaxPageLen, MaxTotal)
    \cup {BadPage(e) : e \in ListingErrors}
    \cup {BadPage("noQueries")}

\* Coordinator 1 has called jobListings and is in its range loop.
InitPag ==
    /\ InitShared
    /\ coord = [k \in Coords |->
                  IF k = 1 THEN [CoordInit EXCEPT !.pc = "range"] ELSE CoordInit]
    /\ pag = [k \in Coords |->
                  IF k = 1 THEN [PagInit EXCEPT !.pc = "wait"] ELSE PagInit]

NextPag ==
    \/ Refill
    \/ PagWait(1)
    \/ PagRequest(1, PagListing)
    \/ CoordRecv(1)
    \/ CoordRangeEnd(1)

SpecPag == InitPag /\ [][NextPag]_vars


(***************************************************************************)
(* SpecDB: successive executions persisting into one SQLite file.  Each    *)
(* step is the saveJobsToSQLite call of one execution, on a tree main can  *)
(* have built: the categories in configuration order, under each the       *)
(* groups of its search terms that collected a record, in any completion   *)
(* order; also on trees of a configuration that lists one search term      *)
(* under two categories.                                                   *)
(***************************************************************************)
MaxRuns == 2
MaxGroupJobs == 1

\* The records one execution can hold when the detail API answers with
\* body b.
DbPostings(b) == {JobPosting(<<id>>, b) : id \in Ids}

DbJobLists(b) == SeqsUpTo(DbPostings(b), MaxGroupJobs) \ {<<>>}

CoordsOf(category) == {k \in Coords : Pairs[k].category = category}

\* The Searches lists category can end up with.
DbSearches(category, b) ==
    LET ks == CoordsOf(category)
        orders == {o \in SeqsUpTo(ks, Cardinality(ks)) :
                      \A x, y \in 1..Len(o) : x # y => o[x] # o[y]}
    IN  UNION {
          {[n \in 1..Len(o) |->
               [SearchTerm |-> Pairs[o[n]].searchTerm, Jobs |-> jl[n]]] :
             jl \in [1..Len(o) -> DbJobLists(b)]} : o \in orders}

DbTreesOf(b) ==
    LET n == Len(getJobCategories)
        all == UNION {DbSearches(getJobCategories[i].Category, b) : i \in 1..n}
    IN  {[i \in 1..n |-> [Category |-> getJobCategories[i].Category,
                          Searches |-> f[i]]] :
           f \in {g \in [1..n -> all] :
                    \A i \in 1..n :
                        g[i] \in DbSearches(getJobCategories[i].Category, b)}}

\* The body MainDetail answers with, and another one.
FirstBody == CHOOSE b \in Bodies : TRUE
SecondBody == CHOOSE b \in Bodies : b # FirstBody

\* Trees in which two groups of the first category were fetched with
\* different answers of the detail API: the records of the first group
\* carry SecondBody, those of the second FirstBody.
DbMixedTrees ==
    {[tree EXCEPT ![1].Searches[1].Jobs =
                      MapSeq(LAMBDA j : JobPosting(j.JobID, SecondBody), @)] :
        tree \in {t \in DbTreesOf(FirstBody) : Len(t[1].Searches) = 2}}

\* Trees of a configuration whose last category also lists the first
\* search term of the first category.
DbSharedTrees ==
    LET n == Len(getJobCategories)
    IN  {[tree EXCEPT ![n].Searches[1].SearchTerm =
                          getJobCategories[1].SearchTerms[1]] :
            tree \in {t \in DbTreesOf(FirstBody) : Len(t[n].Searches) = 1}}

\* Two search terms of the first category discovering {A,B} and {B,C}.
ExampleTree ==
    [i \in 1..Len(getJobCategories) |->
        [Category |-> getJobCategories[i].Category,
         Searches |->
            IF i # 1 THEN <<>>
            ELSE << [SearchTerm |-> getJobCategories[1].SearchTerms[1],
                     Jobs |-> << JobPosting(<<"A">>, FirstBody),
                                 JobPosting(<<"B">>, FirstBody) >>],
                    [SearchTerm |-> getJobCategories[1].SearchTerms[2],
                     Jobs |-> << JobPosting(<<"B">>, FirstBody),
                                 JobPosting(<<"C">>, FirstBody) >>] >>]]

DbTrees ==
    DbTreesOf(FirstBody) \cup DbMixedTrees \cup DbSharedTrees \cup {ExampleTree}

\* The I/O errors tried on a tree of n statements: none, the first
\* statement, the last statement, the commit.
DbFaults(tree) == {0, 1, Len(Statements(tree)), Len(Statements(tree)) + 1}

DbRun ==
    /\ Len(runs) < MaxRuns
    /\ \E tree \in DbTrees : \E fault \in DbFaults(tree) : PersistSQLite(tree, fault)
    /\ UNCHANGED <<limVars, mainPc, wg, coord, pagVars, taskVars, treeVars,
                   otherVars>>

InitDB == Init

NextDB == DbRun

SpecDB == InitDB /\ [][NextDB]_vars

(***************************************************************************)
(* SpecLive: one execution of main under fair scheduling, against a        *)
(* listing API whose pages add up to the total they report (only the       *)
(* first search lists anything) and in which any request may fail.         *)
(*   Fairness: while some goroutine can take a step, a step is taken (the  *)
(* Go scheduler runs a runnable goroutine, every request returns, time     *)
(* passes and refills the bucket).  Nothing is assumed about which         *)
(* goroutine runs, nor about who wins the limiter or a mutex.              *)
(***************************************************************************)
LiveListings == << <<"A", "B">>, <<>>, <<>> >>

LiveListingOf(k) == MapSeq(Urn, LiveListings[((k - 1) % Len(LiveListings)) + 1])

LiveListing(k) ==
    LET rest == SubSeq(LiveListingOf(k), pag[k].start + 1, Len(LiveListingOf(k)))
        lens == IF rest = <<>> THEN {0}
                ELSE {n \in 1..MainPageLen : n <= Len(rest)}
    IN  {OkPage(SubSeq(rest, 1, n), Len(LiveListingOf(k))) : n \in lens}
        \cup {BadPage("status")}

\* The fetch goroutines a coordinator can have.
LiveTasks == 1..Max({Len(LiveListings[n]) : n \in 1..Len(LiveListings)})

NextLive ==
    \/ Refill
    \/ \E k \in Coords : CoordStart(k)
    \/ \E k \in Coords : PagWait(k)
    \/ \E k \in Coords : PagRequest(k, LiveListing(k))
    \/ \E k \in Coords : CoordRecv(k)
    \/ \E k \in Coords : CoordRangeEnd(k)
    \/ \E k \in Coords : \E i \in LiveTasks : TaskWait1(k, i)
    \/ \E k \in Coords : \E i \in LiveTasks : TaskWait2(k, i)
    \/ \E k \in Coords : \E i \in LiveTasks : TaskRequest(k, i, MainDetail)
    \/ \E k \in Coords : \E i \in LiveTasks : TaskLock(k, i)
    \/ \E k \in Coords : \E i \in LiveTasks : TaskAppend(k, i)
    \/ \E k \in Coords : CoordSearchWait(k)
    \/ \E k \in Coords : CoordLock(k)
    \/ \E k \in Coords : CoordAppend(k)
    \/ MainPersist

Fairness == WF_vars(NextLive)

SpecLive == Init /\ [][NextLive]_vars /\ Fairness

(***************************************************************************)
(* SpecFile: successive executions writing the same JSON file.  Each step  *)
(* is the saveJobsToFile call of one execution on the tree it built.       *)
(***************************************************************************)
\* The trees written: those of the first category's searches, and the
\* longer example.
FileTrees ==
    {t \in DbTreesOf(FirstBody) :
        t[Len(getJobCategories)].Searches = <<>>} \cup {ExampleTree}

FileRun ==
    /\ \E tree \in FileTrees : \E openFails \in BOOLEAN :
          /\ jobGroups' = tree
          /\ PersistFile(tree, openFails)
    /\ mainPc' = IF saveErr' THEN "fatal" ELSE "done"
    /\ UNCHANGED <<limVars, wg, coord, pagVars, taskVars, mu, otherVars>>

InitFile == Init

NextFile == FileRun

SpecFile == InitFile /\ [][NextFile]_vars


(***************************************************************************)
(* The state the other programs of the repository start from: none of the  *)
(* goroutines of linkedin.go's main exists, main is at position pc and     *)
(* the paginator of the one search is p.                                   *)
(***************************************************************************)
InitProgram(pc, p) ==
    /\ tokens = Burst
    /\ refilled = 0
    /\ acquired = 0
    /\ issued = 0
    /\ mainPc = pc
    /\ wg = 0
    /\ coord = [k \in Coords |-> CoordInit]
    /\ pag = [k \in Coords |-> IF k = 1 THEN p ELSE PagInit]
    /\ served = [k \in Coords |-> <<>>]
    /\ tasks = [k \in Coords |-> <<>>]
    /\ searchWg = [k \in Coords |-> 0]
    /\ searchMu = [k \in Coords |-> NoOne]
    /\ searchGroup = [k \in Coords |-> NewSearchGroup(k)]
    /\ mu = NoOne
    /\ jobGroups = InitialJobGroups
    /\ db = EmptyDB
    /\ file = <<>>
    /\ now = 0
    /\ runs = <<>>
    /\ saveErr = FALSE
    /\ jobs = <<>>
    /\ loopJid = NoOne
    /\ printed = <<>>
    /\ batches = <<>>

(***************************************************************************)
(* SpecSingle: the concurrent single-search scraper (scraper/scraper.go,   *)
(* lines 19-61).  main ranges over the channel of one jobListings (the     *)
(* same code as in linkedin.go: paginator 1), starts one goroutine per     *)
(* identifier (tasks[1]), each of which appends its record to the shared   *)
(* slice jobs, waits on wg and hands jobs to saveJobsToFile.               *)
(*   mainPc  "range" (the loop of line 37), "wait" (wg.Wait), "done",      *)
(*           "fatal"                                                       *)
(*   task pc "wait1", "wait2", "req" as above, then "append" (about to     *)
(*           read jobs), "write" (about to store the appended slice),      *)
(*           "done"                                                        *)
(* The append of line 52 is under no lock: it is a read of the slice       *)
(* header and a later store of the new one, and other goroutines run in    *)
(* between.                                                                *)
(***************************************************************************)
\* Lines 37-40 against line 138: the range loop receives an identifier,
\* wg.Add(1), and the goroutine is started.
SingleRecv ==
    /\ Alive
    /\ mainPc = "range"
    /\ pag[1].pc = "send"
    /\ tasks' = [tasks EXCEPT
                    ![1] = Append(@, NewTask(UrnToJobID(Head(pag[1].cur))))]
    /\ wg' = wg + 1
    /\ pag' = [pag EXCEPT ![1] = AfterSend(pag[1])]
    /\ UNCHANGED <<limVars, mainPc, coord, served, searchWg, searchMu,
                   searchGroup, treeVars, sinkVars, otherVars>>

\* Line 37: the channel is closed, the range loop ends; main is at wg.Wait.
SingleRangeEnd ==
    /\ Alive
    /\ mainPc = "range"
    /\ pag[1].pc = "closed"
    /\ mainPc' = "wait"
    /\ UNCHANGED <<limVars, wg, coord, pagVars, taskVars, treeVars, sinkVars,
                   otherVars>>

\* Lines 46-50 and 158-178: the request; a failure is logged and the
\* goroutine returns (defer wg.Done).
SingleRequest(i, Resps) ==
    /\ Alive
    /\ TaskAt(1, i, "req")
    /\ issued' = issued + 1
    /\ \E r \in Resps :
          IF r.kind = "ok"
            THEN /\ tasks' = [tasks EXCEPT
                        ![1][i].pc = "append", ![1][i].tok = 0,
                        ![1][i].reqs = @ + 1,
                        ![1][i].job = JobPosting(tasks[1][i].jid, r.body)]
                 /\ UNCHANGED wg
            ELSE /\ tasks' = [tasks EXCEPT
                        ![1][i].pc = "done", ![1][i].tok = 0,
                        ![1][i].reqs = @ + 1,
                        ![1][i].failed = TRUE]
                 /\ wg' = wg - 1
    /\ UNCHANGED <<tokens, refilled, acquired, mainPc, coord, pagVars,
                   searchWg, searchMu, searchGroup, treeVars, sinkVars,
                   otherVars>>

\* Line 52, first half: append reads the slice jobs.
SingleAppendRead(i) ==
    /\ Alive
    /\ TaskAt(1, i, "append")
    /\ tasks' = [tasks EXCEPT ![1][i].pc = "write", ![1][i].local = jobs]
    /\ UNCHANGED <<limVars, mainPc, wg, coord, pagVars, searchWg, searchMu,
                   searchGroup, treeVars, sinkVars, otherVars>>

\* Line 52, second half: the appended slice is stored in jobs, and the
\* goroutine returns (defer wg.Done).
SingleAppendWrite(i) ==
    /\ Alive
    /\ TaskAt(1, i, "write")
    /\ jobs' = Append(tasks[1][i].local, tasks[1][i].job)
    /\ tasks' = [tasks EXCEPT ![1][i].pc = "done"]
    /\ wg' = wg - 1
    /\ UNCHANGED <<limVars, mainPc, coord, pagVars, searchWg, searchMu,
                   searchGroup, treeVars, sinkVars, loopJid, printed,
                   jobInputs, batches>>

\* json.NewEncoder(f).Encode(jobs) of lines 201-203.
EncodeJobs(js) ==
    << <<"[">> >>
    \o Flatten([i \in 1..Len(js) |-> EncodeJob(js[i])])
    \o << <<"]">>, <<"\n">> >>

\* Lines 56-60 and 187-206: wg.Wait returns and jobs goes to saveJobsToFile
\* (the same O_RDWR|O_CREATE open); an error is fatal.
SingleSave ==
    /\ Alive
    /\ mainPc = "wait"
    /\ WgZero
    /\ \E openFails \in BOOLEAN :
          /\ file' = IF openFails THEN file ELSE WriteFile(file, EncodeJobs(jobs))
          /\ saveErr' = openFails
    /\ mainPc' = IF saveErr' THEN "fatal" ELSE "done"
    /\ UNCHANGED <<limVars, wg, coord, pagVars, taskVars, treeVars, db, now,
                   runs, otherVars>>

\* The detail answers of SpecSingle.
SingleDetail == {OkDetail(b) : b \in Bodies} \cup {BadDetail("status")}

\* Lines 29-35: the limiter, the jobListings goroutine, an empty jobs.
InitSingle ==
    /\ InitProgram("range", [PagInit EXCEPT !.pc = "wait"])
    /\ jobInputs = <<>>

NextSingle ==
    \/ Refill
    \/ PagWait(1)
    \/ PagRequest(1, MainListing(1))
    \/ SingleRecv
    \/ SingleRangeEnd
    \/ \E i \in 1..Len(tasks[1]) : TaskWait1(1, i)
    \/ \E i \in 1..Len(tasks[1]) : TaskWait2(1, i)
    \/ \E i \in 1..Len(tasks[1]) : SingleRequest(i, SingleDetail)
    \/ \E i \in 1..Len(tasks[1]) : SingleAppendRead(i)
    \/ \E i \in 1..Len(tasks[1]) : SingleAppendWrite(i)
    \/ SingleSave

SpecSingle == InitSingle /\ [][NextSingle]_vars


(***************************************************************************)
(* SpecSeq: the sequential scraper (scraper/scraper.go, lines 229-244 and  *)
(* its own jobListings and jobPostings, lines 281-357, which use no        *)
(* limiter).  main ranges over the channel and fetches each identifier     *)
(* itself.                                                                 *)
(*   mainPc   "range" (the loop of line 235), "fetch" (in the body, at     *)
(*            jobPostings), "done", "panic"                                *)
(*   pag[1]   the paginator; "wait" is the top of its loop                 *)
(*   loopJid  the identifier of the iteration under way                    *)
(*   printed  the lines written: <<"stdout", "Fetching", jid>>,            *)
(*            <<"log", jid, error>>, <<"stdout", "Company", ..., jid>>     *)
(***************************************************************************)
SeqRunning == mainPc \notin {"done", "panic"} /\ pag[1].pc # "panic"

\* Lines 292-316: the page request, made without a limiter.
SeqPagRequest(Resps) ==
    /\ SeqRunning
    /\ pag[1].pc = "wait"
    /\ Len(served[1]) < MaxPages
    /\ \E r \in Resps :
          /\ served' = [served EXCEPT ![1] = Append(@, r)]
          /\ pag' = [pag EXCEPT ![1] = AfterResponse(pag[1], r)]
    /\ issued' = issued + 1
    /\ UNCHANGED <<tokens, refilled, acquired, mainPc, wg, coord, taskVars,
                   treeVars, sinkVars, otherVars>>

\* Lines 235-236 against line 319: the range loop receives an identifier
\* and announces its fetch.
SeqRecv ==
    /\ SeqRunning
    /\ mainPc = "range"
    /\ pag[1].pc = "send"
    /\ loopJid' = UrnToJobID(Head(pag[1].cur))
    /\ printed' = Append(printed, <<"stdout", "Fetching", loopJid'>>)
    /\ pag' = [pag EXCEPT ![1] = AfterSend(pag[1])]
    /\ mainPc' = "fetch"
    /\ UNCHANGED <<limVars, wg, coord, served, taskVars, treeVars, sinkVars,
                   jobs, jobInputs, batches>>

\* Lines 237-242 and 330-357: jobPostings returns (job, nil) or (nil, err);
\* an error is logged; then job.Company and job.Title are read for the
\* line to print, which with a nil job is a nil pointer dereference: the
\* runtime panics and the process is gone.
SeqFetch(Resps) ==
    /\ SeqRunning
    /\ mainPc = "fetch"
    /\ issued' = issued + 1
    /\ \E r \in Resps :
          IF r.kind = "ok"
            THEN /\ printed' = Append(printed, <<"stdout", "Company", r.body.Company,
                                                r.body.Title, loopJid>>)
                 /\ mainPc' = "range"
                 /\ loopJid' = NoOne
            ELSE /\ printed' = Append(printed, <<"log", loopJid, r.kind>>)
                 /\ mainPc' = "panic"
                 /\ UNCHANGED loopJid
    /\ UNCHANGED <<tokens, refilled, acquired, wg, coord, pagVars, taskVars,
                   treeVars, sinkVars, jobs, jobInputs, batches>>

\* Line 235: the channel is closed, the loop ends and main returns.
SeqRangeEnd ==
    /\ SeqRunning
    /\ mainPc = "range"
    /\ pag[1].pc = "closed"
    /\ mainPc' = "done"
    /\ UNCHANGED <<limVars, wg, coord, pagVars, taskVars, treeVars, sinkVars,
                   otherVars>>

\* What the listing API holds for the search of SpecSeq, in upstream order.
SeqListing == MapSeq(Urn, <<"A", "B", "A">>)

\* The listing answers of SpecSeq to the request at the paginator's
\* offset: the next 1..MainPageLen identifiers with the true total, or one
\* of the three failures.
SeqListingAnswers ==
    LET rest == SubSeq(SeqListing, pag[1].start + 1, Len(SeqListing))
        lens == IF rest = <<>> THEN {0}
                ELSE {n \in 1..MainPageLen : n <= Len(rest)}
    IN  {OkPage(SubSeq(rest, 1, n), Len(SeqListing)) : n \in lens}
        \cup {BadPage(e) : e \in ListingErrors}

\* The detail answers of SpecSeq.
SeqDetail == {OkDetail(b) : b \in Bodies} \cup {BadDetail(e) : e \in DetailErrors}

\* Line 233: jobListings has started its goroutine.
InitSeq ==
    /\ InitProgram("range", [PagInit EXCEPT !.pc = "wait"])
    /\ jobInputs = <<>>

NextSeq ==
    \/ SeqPagRequest(SeqListingAnswers)
    \/ SeqRecv
    \/ SeqFetch(SeqDetail)
    \/ SeqRangeEnd

SpecSeq == InitSeq /\ [][NextSeq]_vars


(***************************************************************************)
(* SpecBatch: createBatches of the batch tool (unnamed/part_000).  A job   *)
(* description is represented by its length in bytes, which is all that    *)
(* createBatches reads of it.                                              *)
(*   mainPc  "batch" (main has read its input, line 80), "process" (main   *)
(*           has the batches, line 84)                                     *)
(***************************************************************************)
MAX_TOKENS_PER_REQUEST == 15000
TOKEN_TO_CHAR_RATIO == 4
SYSTEM_OVERHEAD_TOKENS == 2500

JobInput(id, description) == [JobID |-> id, Description |-> description]

\* Lines 127-132.
maxInputTokens == MAX_TOKENS_PER_REQUEST - SYSTEM_OVERHEAD_TOKENS

maxInputChars ==
    IF maxInputTokens * TOKEN_TO_CHAR_RATIO <= 0 THEN 4000
    ELSE maxInputTokens * TOKEN_TO_CHAR_RATIO

\* Line 141: len(job.Description).
jobCharCount(job) == job.Description

\* Mutant of FinalBatch: the batch under construction is dropped.
FinalBatchDropped(bs, currentBatch) == bs

\* Lines 155-160: the last batch is added if it is not empty.
FinalBatch(bs, currentBatch) ==
    IF Len(currentBatch) > 0 THEN Append(bs, currentBatch) ELSE bs

\* Lines 140-153: the loop over the jobs still to place, with the batches
\* closed so far, the batch under construction and its character count.
RECURSIVE BatchLoop(_, _, _, _)
BatchLoop(js, bs, currentBatch, currentBatchCharCount) ==
    IF js = <<>> THEN FinalBatch(bs, currentBatch)
    ELSE LET job == Head(js)
             full == /\ currentBatchCharCount + jobCharCount(job) > maxInputChars
                     /\ Len(currentBatch) > 0
         IN  IF full
               THEN BatchLoop(Tail(js), Append(bs, currentBatch),
                              <<job>>, jobCharCount(job))
               ELSE BatchLoop(Tail(js), bs, Append(currentBatch, job),
                              currentBatchCharCount + jobCharCount(job))

\* Lines 125-161.
createBatches(js) == BatchLoop(js, <<>>, <<>>, 0)

\* Line 83.
MainCreateBatches ==
    /\ mainPc = "batch"
    /\ batches' = createBatches(jobInputs)
    /\ mainPc' = "process"
    /\ UNCHANGED <<limVars, wg, coord, pagVars, taskVars, treeVars, sinkVars,
                   jobs, loopJid, printed, jobInputs>>

\* The input lists of SpecBatch: up to MaxJobs jobs whose descriptions are
\* empty, small, just under half the budget, half the budget, the budget,
\* or one byte more.
MaxJobs == 3

DescriptionLengths ==
    {0, 1, maxInputChars \div 2 - 1, maxInputChars \div 2, maxInputChars,
     maxInputChars + 1}

BatchInputs ==
    SeqsUpTo({JobInput(id, d) : id \in Ids, d \in DescriptionLengths}, MaxJobs)

InitBatch ==
    /\ InitProgram("batch", PagInit)
    /\ jobInputs \in BatchInputs

NextBatch == MainCreateBatches

SpecBatch == InitBatch /\ [][NextBatch]_vars

(***************************************************************************)
(* Properties of jobListings.                                              *)
(***************************************************************************)
\* The JobIDs coordinator k has received from its paginator, in order.
Yielded(k) == [i \in 1..Len(tasks[k]) |-> tasks[k][i].jid]

\* The JobIDs of the served pages, page by page.
Upstream(pages) ==
    MapSeq(UrnToJobID, Flatten([i \in 1..Len(pages) |-> pages[i].urns]))

\* The pages are all listing pages, agree on the total, and their lengths
\* sum to it.
SumToTotal(pages) ==
    /\ pages # <<>>
    /\ \A i \in 1..Len(pages) :
          pages[i].kind = "ok" /\ pages[i].total = pages[1].total
    /\ SumSeq([i \in 1..Len(pages) |-> Len(pages[i].urns)]) = pages[1].total

\* C1: when the pages served to a paginator have lengths that sum to the
\* total they report, the paginator asks for no further page, what it has
\* yielded and still has to send is exactly the pages' identifiers in
\* upstream order, and once the last is received the channel is closed
\* without an error having been logged, with exactly total identifiers
\* yielded.
C1_YieldsAllInOrder ==
    \A k \in Coords :
        SumToTotal(served[k]) =>
            /\ pag[k].pc \in {"send", "closed"}
            /\ Yielded(k) \o MapSeq(UrnToJobID, pag[k].cur) = Upstream(served[k])
            /\ pag[k].pc = "send" => pag[k].cur # <<>>
            /\ pag[k].pc = "closed" =>
                  /\ pag[k].err = "none"
                  /\ Yielded(k) = Upstream(served[k])
                  /\ Len(Yielded(k)) = served[k][1].total

\* C1 witness: three identifiers, one of them twice, over two pages, all
\* yielded and the channel closed.
C1_Witness ==
    /\ SumToTotal(served[1])
    /\ Len(served[1]) = 2
    /\ pag[1].pc = "closed"
    /\ Yielded(1) = << <<"A">>, <<"B">>, <<"A">> >>

\* C2: once the listing has run dry before the reported total is reached
\* (the last two pages served were empty and the offset is below the
\* total), the paginator has stopped: its channel is closed and an error
\* has been reported.
C2_StopsWhenPagesRunOut ==
    \A k \in Coords :
        LET n == Len(served[k])
        IN  ( /\ n >= 2
              /\ \A i \in {n - 1, n} :
                    served[k][i].kind = "ok" /\ served[k][i].urns = <<>>
              /\ pag[k].start < served[k][n].total )
            => pag[k].pc = "closed" /\ pag[k].err # "none"


\* C20: while every page served was a listing page, the paginator stops
\* exactly when the identifiers of the pages it has gone through reach the
\* total the first page reported: it has returned only if they do, and it
\* goes on to another request only if they do not.
C20_StopsAtFirstTotal ==
    \A k \in Coords :
        (served[k] # <<>> /\ \A i \in 1..Len(served[k]) : served[k][i].kind = "ok") =>
            /\ pag[k].pc = "closed" => pag[k].start >= served[k][1].total
            /\ pag[k].pc \in {"wait", "req"} => pag[k].start < served[k][1].total

(***************************************************************************)
(* Properties of one execution of main.                                    *)
(***************************************************************************)
\* Coordinator k is past searchWg.Wait.
Completed(k) == coord[k].pc \in {"lock", "write", "done"}

\* The groups of the tree under category c that carry search term t.
GroupsOf(c, t) ==
    {<<i, j>> \in (1..Len(jobGroups)) \X (1..Len(Pairs)) :
        /\ j <= Len(jobGroups[i].Searches)
        /\ jobGroups[i].Category = c
        /\ jobGroups[i].Searches[j].SearchTerm = t}

\* All the groups of the tree, by position.
AllGroups ==
    {<<i, j>> \in (1..Len(jobGroups)) \X (1..Len(Pairs)) :
        j <= Len(jobGroups[i].Searches)}

\* The fetch goroutines of coordinator k whose request succeeded.
Succeeded(k) == {i \in 1..Len(tasks[k]) : tasks[k][i].reqs = 1 /\ ~tasks[k][i].failed}

\* C3: once coordinator k is past searchWg.Wait, its group holds exactly
\* the records of its fetches that succeeded, one per such fetch and as
\* often as fetched, and nothing of a fetch that failed.
C3_GroupIsSuccessfulFetches ==
    \A k \in Coords :
        Completed(k) =>
            LET collected == searchGroup[k].Jobs
            IN  /\ Len(collected) = Cardinality(Succeeded(k))
                /\ \A i \in Succeeded(k) :
                      Cardinality({n \in 1..Len(collected) : collected[n] = tasks[k][i].job})
                      = Cardinality({j \in Succeeded(k) :
                                        tasks[k][j].job = tasks[k][i].job})
                /\ \A n \in 1..Len(collected) :
                      \E i \in Succeeded(k) : tasks[k][i].job = collected[n]

\* C3 witness: coordinator 1 has finished with two fetches, the first
\* failed and the second collected.
C3_Witness ==
    /\ coord[1].pc = "done"
    /\ Len(tasks[1]) = 2
    /\ tasks[1][1].failed
    /\ ~tasks[1][2].failed
    /\ searchGroup[1].Jobs = <<tasks[1][2].job>>

C5_CompleteOnlyAfterFetches ==
    \A k \in Coords :
        (Completed(k) \/ GroupsOf(Pairs[k].category, Pairs[k].searchTerm) # {}) =>
            /\ pag[k].pc = "closed"
            /\ searchWg[k] = 0
            /\ \A i \in 1..Len(tasks[k]) : tasks[k][i].pc = "done"

\* C5 witness: a group of two records is in the tree.
C5_Witness ==
    /\ coord[1].pc = "done"
    /\ GroupsOf(Pairs[1].category, Pairs[1].searchTerm) # {}
    /\ Len(searchGroup[1].Jobs) = 2

\* C6: once a sink has been called every coordinator has returned, and at
\* all times every record in the tree is the result of a finished fetch of
\* the coordinator whose group holds it.
C6_PersistAfterCoordinators ==
    /\ mainPc \in {"done", "fatal"} =>
          /\ wg = 0
          /\ \A k \in Coords : coord[k].pc = "done"
    /\ \A g \in AllGroups :
          LET sg == jobGroups[g[1]].Searches[g[2]]
          IN  \A n \in 1..Len(sg.Jobs) :
                \E k \in Coords :
                    /\ Pairs[k].category = jobGroups[g[1]].Category
                    /\ Pairs[k].searchTerm = sg.SearchTerm
                    /\ \E i \in Succeeded(k) :
                          tasks[k][i].pc = "done" /\ tasks[k][i].job = sg.Jobs[n]

\* C6 witness: the SQLite sink has committed a tree with records.
C6_Witness ==
    /\ mainPc = "done"
    /\ Len(runs) = 1
    /\ Len(db.jobs) = 2

\* The requests issued so far by the paginators and the fetch goroutines.
RequestsBy(sv, ts) ==
    SumSeq([k \in Coords |-> Len(sv[k])])
    + SumSeq([k \in Coords |-> SumSeq([i \in 1..Len(ts[k]) |-> ts[k][i].reqs])])

\* C7: every step that issues a request is the step of one paginator or
\* fetch goroutine that holds a token it acquired since its previous
\* request, and the request uses that token up.
C7_TokenBeforeRequest ==
    [][ /\ \A k \in Coords :
              Len(served'[k]) > Len(served[k]) =>
                  pag[k].tok >= 1 /\ pag'[k].tok = 0
        /\ \A k \in Coords : \A i \in 1..Len(tasks[k]) :
              tasks'[k][i].reqs > tasks[k][i].reqs =>
                  tasks[k][i].tok >= 1 /\ tasks'[k][i].tok = 0
        /\ issued' - issued = RequestsBy(served', tasks') - RequestsBy(served, tasks)
        /\ issued' - issued \in {0, 1} ]_vars

\* C7 witness: a paginator has issued a second page request and one of its
\* fetch goroutines a detail request.
C7_Witness ==
    /\ Len(served[1]) = 2
    /\ \E i \in 1..Len(tasks[1]) : tasks[1][i].reqs = 1

\* C8: the requests issued, and the tokens taken, never exceed the burst
\* plus the tokens refilled, whatever the number of goroutines waiting.
C8_RateBound ==
    /\ issued <= acquired
    /\ acquired <= Burst + refilled

\* C8 witness: four goroutines of three coordinators wait at the limiter
\* at once, the bucket is empty, and requests have been issued.
C8_Witness ==
    /\ tokens = 0
    /\ issued >= 3
    /\ Cardinality({k \in Coords : pag[k].pc = "wait"})
       + SumSeq([k \in Coords |->
                   Cardinality({i \in 1..Len(tasks[k]) :
                                   tasks[k][i].pc \in {"wait1", "wait2"}})]) >= 4


\* The paginator of coordinator k has logged an error and returned.
Failed(k) == pag[k].err # "none"

\* The tree holds the group of coordinator k, once.
Merged(k) ==
    /\ Cardinality(GroupsOf(Pairs[k].category, Pairs[k].searchTerm)) = 1
    /\ \A g \in GroupsOf(Pairs[k].category, Pairs[k].searchTerm) :
          jobGroups[g[1]].Searches[g[2]] = searchGroup[k]

\* The sink main called has stored the tree.
Persisted ==
    IF runs # <<>>
      THEN /\ runs[1].tree = jobGroups
           /\ \A k \in Coords : \A n \in 1..Len(searchGroup[k].Jobs) :
                 HasJob(db, searchGroup[k].Jobs[n].JobID)
      ELSE file = Encode(jobGroups)

\* C15: when the paginator of a coordinator has failed the process is
\* still running, and every other coordinator is as it would be without
\* the failure: a paginator of its own that ended without an error has
\* yielded its whole listing, once past searchWg.Wait its group holds one
\* record per fetch that succeeded, once it has returned with records its
\* group is in the tree, and once main is done it has returned and the
\* tree with its group has been stored by the sink.
C15_SiblingsUnaffected ==
    \A k \in Coords :
        Failed(k) =>
            /\ ~Crashed
            /\ \A j \in Coords \ {k} :
                  /\ (pag[j].pc = "closed" /\ ~Failed(j)) =>
                        Yielded(j) = MapSeq(UrnToJobID, Listing(j))
                  /\ Completed(j) =>
                        /\ Len(searchGroup[j].Jobs) = Cardinality(Succeeded(j))
                        /\ \A i \in Succeeded(j) :
                              \E n \in 1..Len(searchGroup[j].Jobs) :
                                  searchGroup[j].Jobs[n] = tasks[j][i].job
                  /\ (coord[j].pc = "done" /\ Len(searchGroup[j].Jobs) > 0) =>
                        Merged(j)
                  /\ mainPc = "done" => coord[j].pc = "done" /\ Persisted

\* C15 witness: the first coordinator's paginator failed, the other two
\* collected and merged their records, and the SQLite sink committed them.
C15_Witness ==
    /\ Failed(1)
    /\ mainPc = "done"
    /\ Len(runs) = 1
    /\ \A j \in Coords \ {1} : Len(searchGroup[j].Jobs) > 0 /\ Merged(j)
    /\ db.jobs # <<>>

\* C16: what a coordinator receives from a paginator that failed differs
\* from what a coordinator receives from a paginator that exhausted its
\* listing: the caller can tell the two apart.  (The channel of JobIDs and
\* its close are all that jobListings hands to its caller.)
C16_CallerSeesFailure ==
    \A j, k \in Coords :
        ( /\ coord[j].pc # "range" /\ pag[j].pc = "closed" /\ Failed(j)
          /\ coord[k].pc # "range" /\ pag[k].pc = "closed" /\ ~Failed(k) )
        => Yielded(j) # Yielded(k)

\* Some goroutine is blocked in limiter.Wait.
AtLimiter(k) ==
    \/ coord[k].pc = "wait"
    \/ pag[k].pc = "wait"
    \/ \E i \in 1..Len(tasks[k]) : tasks[k][i].pc \in {"wait1", "wait2"}

\* C19: under fair scheduling, with every request returning and pages
\* that add up to their total, no goroutine stays in limiter.Wait for
\* ever, no paginator stays blocked on its send for ever, every
\* coordinator returns, and main gets to its sink.
C19_RunCompletes ==
    /\ \A k \in Coords : []<>(~AtLimiter(k))
    /\ \A k \in Coords : []<>(pag[k].pc # "send")
    /\ \A k \in Coords : <>(coord[k].pc = "done")
    /\ <>(mainPc \in {"done", "fatal"})

\* C19 witness: main has stored the tree after a run in which one listing
\* took two pages, a paginator failed, a fetch failed and records were
\* collected.
C19_Witness ==
    /\ mainPc = "done"
    /\ \A k \in Coords : coord[k].pc = "done"
    /\ Len(served[1]) = 2
    /\ \E k \in Coords : Failed(k)
    /\ \E k \in Coords : \E i \in 1..Len(tasks[k]) : tasks[k][i].failed
    /\ \E k \in Coords : Len(searchGroup[k].Jobs) > 0

\* The identifiers paginator k has sent over its channel so far.
Sent(k) ==
    IF pag[k].pc = "send"
      THEN pag[k].start + Len(pag[k].page) - Len(pag[k].cur)
      ELSE pag[k].start

C26_OnlyNonEmptyGroups ==
    /\ \A g \in AllGroups : Len(jobGroups[g[1]].Searches[g[2]].Jobs) > 0
    /\ \A k \in Coords :
          (coord[k].pc = "done" /\ searchGroup[k].Jobs = <<>>) =>
              GroupsOf(Pairs[k].category, Pairs[k].searchTerm) = {}
    /\ (mainPc = "done" /\ runs # <<>>) =>
          {db.searches[n].search_term : n \in 1..Len(db.searches)}
          = {Pairs[k].searchTerm : k \in {j \in Coords : searchGroup[j].Jobs # <<>>}}

\* C26 witness: the SQLite sink has committed after a run in which the
\* first search had its only fetches fail and the other two collected a
\* record each.
C26_Witness ==
    /\ mainPc = "done"
    /\ runs # <<>>
    /\ Len(tasks[1]) = 2
    /\ searchGroup[1].Jobs = <<>>
    /\ Len(searchGroup[2].Jobs) = 1
    /\ Len(searchGroup[3].Jobs) = 1
    /\ Len(db.searches) = 2

TaskTokens(t) == IF t.pc = "wait1" THEN 0 ELSE IF t.pc = "wait2" THEN 1 ELSE 2

TreePairs(tree) ==
    UNION {UNION {{<<tree[i].Searches[j].SearchTerm,
                     tree[i].Searches[j].Jobs[n].JobID>> :
                       n \in 1..Len(tree[i].Searches[j].Jobs)} :
                  j \in 1..Len(tree[i].Searches)} :
           i \in 1..Len(tree)}

TreeJobIDs(tree) == {p[2] : p \in TreePairs(tree)}

\* The search terms that search_id resolves to in the searches table.
TermsOf(sid) ==
    {db.searches[i].search_term :
        i \in {j \in 1..Len(db.searches) : db.searches[j].search_id = sid}}

\* The committed runs whose tree has search term t discovering job jid.
RunsWith(t, jid) == {n \in 1..Len(runs) : <<t, jid>> \in TreePairs(runs[n].tree)}

\* C9: every association row belongs to one search term, some committed
\* run discovered its pair, first_seen is the timestamp of the first such
\* run and last_seen the timestamp of the latest.
C9_FirstSeenLastSeen ==
    \A i \in 1..Len(db.searches_jobs) :
        LET r == db.searches_jobs[i]
        IN  /\ Cardinality(TermsOf(r.search_id)) = 1
            /\ \A t \in TermsOf(r.search_id) :
                  /\ RunsWith(t, r.job_id) # {}
                  /\ r.first_seen = runs[Min(RunsWith(t, r.job_id))].ts
                  /\ r.last_seen = runs[Max(RunsWith(t, r.job_id))].ts

\* C9 witness: after two runs one association was re-discovered at a later
\* timestamp and another was seen by the first run only.
C9_Witness ==
    /\ Len(runs) = 2
    /\ \E i, j \in 1..Len(db.searches_jobs) :
          /\ db.searches_jobs[i].first_seen < db.searches_jobs[i].last_seen
          /\ db.searches_jobs[j].last_seen = runs[1].ts
          /\ runs[1].ts < runs[2].ts

\* C10: after two committed runs that discovered the same (search,
\* identifier) pairs, in whatever group order, into the empty store, the
\* jobs table has one row per identifier of the tree, searches_jobs one row
\* per (search, identifier) pair of the tree, and every association has
\* first_seen of the first run and last_seen of the second.
C10_TwoRunsIdempotent ==
    (Len(runs) = 2 /\ TreePairs(runs[1].tree) = TreePairs(runs[2].tree)) =>
        LET tree == runs[1].tree
        IN  /\ Len(db.jobs) = Cardinality(TreeJobIDs(tree))
            /\ \A jid \in TreeJobIDs(tree) : HasJob(db, jid)
            /\ Len(db.searches_jobs) = Cardinality(TreePairs(tree))
            /\ \A p \in TreePairs(tree) :
                  \E i \in 1..Len(db.searches_jobs) :
                      /\ TermsOf(db.searches_jobs[i].search_id) = {p[1]}
                      /\ db.searches_jobs[i].job_id = p[2]
            /\ \A i \in 1..Len(db.searches_jobs) :
                  /\ db.searches_jobs[i].first_seen = runs[1].ts
                  /\ db.searches_jobs[i].last_seen = runs[2].ts

\* C10 witness: the same tree, three searches over two identifiers, was
\* committed at two different timestamps.
C10_Witness ==
    /\ Len(runs) = 2
    /\ runs[1].tree = runs[2].tree
    /\ runs[1].ts < runs[2].ts
    /\ Len(db.jobs) = 2
    /\ Len(db.searches_jobs) = 3

\* The transaction's state after the statements of tree that precede
\* statement number fault, run on the database as it is now.
PartialWrites(tree, fault) ==
    ExecAll([db |-> db, categoryID |-> 0, searchID |-> 0, err |-> FALSE],
            Prefix(Statements(tree), fault), now).db

\* C11: a call of saveJobsToSQLite that returns an error leaves the rows
\* of all five tables, and the committed history, exactly as they were
\* before the call.
C11_FailureLeavesStoreUntouched ==
    [][saveErr' => (db' = db /\ runs' = runs)]_vars

\* C11 witness: a save has failed on a store holding a committed run, and
\* on this store the last statement of some tree fails after the
\* statements before it have written rows, with the call returning the
\* store unchanged.
C11_Witness ==
    /\ saveErr
    /\ Len(runs) = 1
    /\ db.jobs # <<>>
    /\ \E tree \in DbTrees :
          LET n == Len(Statements(tree))
          IN  /\ PartialWrites(tree, n) # db
              /\ SaveJobsToSQLite(db, tree, now, n) = [db |-> db, err |-> TRUE]

\* The committed runs whose tree holds a record with identifier jid.
RunsWithJob(jid) == {n \in 1..Len(runs) : jid \in TreeJobIDs(runs[n].tree)}

\* The record with identifier jid that the loops of saveJobsToSQLite reach
\* first in tree.
FirstInTree(tree, jid) ==
    LET stmts == Statements(tree)
        at == {i \in 1..Len(stmts) : stmts[i].op = "job" /\ stmts[i].job.JobID = jid}
    IN  stmts[Min(at)].job

\* The records of a tree.
TreeJobs(tree) ==
    {st.job : st \in {Statements(tree)[i] : i \in
        {j \in 1..Len(Statements(tree)) : Statements(tree)[j].op = "job"}}}

\* C12: every row of the jobs table carries the fields of the first
\* record with its identifier that was ever persisted (the first one in
\* the first committed run that held the identifier), whatever fields
\* later groups and later runs carried for it, and no identifier has two
\* rows.
C12_FirstInsertionWins ==
    \A i \in 1..Len(db.jobs) :
        LET r == db.jobs[i]
        IN  /\ RunsWithJob(r.job_id) # {}
            /\ LET first == FirstInTree(runs[Min(RunsWithJob(r.job_id))].tree,
                                        r.job_id)
               IN  /\ r.company = first.Company
                   /\ r.description = first.Description
                   /\ r.title = first.Title
            /\ \A j \in 1..Len(db.jobs) : db.jobs[j].job_id = r.job_id => j = i

\* C12 witness: the first run held one identifier in two groups with
\* different fields, the second run held it again with the fields of the
\* later group, and the row still carries those of the first group.
C12_Witness ==
    /\ Len(runs) = 2
    /\ \E i \in 1..Len(db.jobs) :
          LET r == db.jobs[i]
          IN  /\ r.company = SecondBody.Company
              /\ JobPosting(r.job_id, SecondBody) \in TreeJobs(runs[1].tree)
              /\ JobPosting(r.job_id, FirstBody) \in TreeJobs(runs[1].tree)
              /\ JobPosting(r.job_id, FirstBody) \in TreeJobs(runs[2].tree)
              /\ JobPosting(r.job_id, SecondBody) \notin TreeJobs(runs[2].tree)

\* The (category, JobID) pairs of a tree and its search terms with a group.
TreeCategoryPairs(tree) ==
    UNION {UNION {{<<tree[i].Category, tree[i].Searches[j].Jobs[n].JobID>> :
                       n \in 1..Len(tree[i].Searches[j].Jobs)} :
                  j \in 1..Len(tree[i].Searches)} :
           i \in 1..Len(tree)}

TreeTerms(tree) ==
    UNION {{tree[i].Searches[j].SearchTerm : j \in 1..Len(tree[i].Searches)} :
           i \in 1..Len(tree)}

\* The category names that category_id resolves to in the categories table.
NamesOf(cid) ==
    {db.categories[i].category_name :
        i \in {j \in 1..Len(db.categories) : db.categories[j].category_id = cid}}

\* C13: after the first committed run into the empty store, the jobs table
\* has one row per identifier of the tree, searches one row per search
\* term with a group, searches_jobs one row per (search term, identifier)
\* pair and jobs_categories one row per (category, identifier) pair; for
\* the tree of two terms discovering {A,B} and {B,C} that is 3, 2 and 4.
C13_OneRowPerDistinctKey ==
    Len(runs) = 1 =>
        LET tree == runs[1].tree
        IN  /\ Len(db.jobs) = Cardinality(TreeJobIDs(tree))
            /\ {db.jobs[i].job_id : i \in 1..Len(db.jobs)} = TreeJobIDs(tree)
            /\ Len(db.searches) = Cardinality(TreeTerms(tree))
            /\ {db.searches[i].search_term : i \in 1..Len(db.searches)}
               = TreeTerms(tree)
            /\ Len(db.searches_jobs) = Cardinality(TreePairs(tree))
            /\ \A p \in TreePairs(tree) :
                  \E i \in 1..Len(db.searches_jobs) :
                      /\ TermsOf(db.searches_jobs[i].search_id) = {p[1]}
                      /\ db.searches_jobs[i].job_id = p[2]
            /\ Len(db.jobs_categories) = Cardinality(TreeCategoryPairs(tree))
            /\ \A p \in TreeCategoryPairs(tree) :
                  \E i \in 1..Len(db.jobs_categories) :
                      /\ NamesOf(db.jobs_categories[i].category_id) = {p[1]}
                      /\ db.jobs_categories[i].job_id = p[2]
            /\ tree = ExampleTree =>
                  /\ Len(db.jobs) = 3
                  /\ Len(db.searches) = 2
                  /\ Len(db.searches_jobs) = 4

\* C13 witness: the tree of two terms discovering {A,B} and {B,C} is the
\* one committed run.
C13_Witness ==
    /\ Len(runs) = 1
    /\ runs[1].tree = ExampleTree
    /\ Len(db.jobs) = 3
    /\ Len(db.jobs_categories) = 3

\* C17: in every committed state of the database each jobs_categories
\* row references a row of jobs and a row of categories, and each
\* searches_jobs row references a row of searches and a row of jobs.
C17_ForeignKeysHold ==
    /\ \A i \in 1..Len(db.jobs_categories) :
          /\ HasJob(db, db.jobs_categories[i].job_id)
          /\ HasCategoryID(db, db.jobs_categories[i].category_id)
    /\ \A i \in 1..Len(db.searches_jobs) :
          /\ HasSearchID(db, db.searches_jobs[i].search_id)
          /\ HasJob(db, db.searches_jobs[i].job_id)

\* C17 witness: two runs are committed and both association tables hold
\* rows of both categories.
C17_Witness ==
    /\ Len(runs) = 2
    /\ Cardinality({db.jobs_categories[i].category_id :
                       i \in 1..Len(db.jobs_categories)}) = 2
    /\ Len(db.searches_jobs) >= 3

\* Table t has one row per value of each of its two columns.
OneRowPerKey(t, idOf(_), nameOf(_)) ==
    \A i, j \in 1..Len(t) :
        (idOf(t[i]) = idOf(t[j]) \/ nameOf(t[i]) = nameOf(t[j])) => i = j

\* The categories of a tree that have a group with search term t.
CategoriesWith(tree, t) ==
    {i \in 1..Len(tree) :
        \E j \in 1..Len(tree[i].Searches) : tree[i].Searches[j].SearchTerm = t}

\* C18: categories and searches hold at most one row per name and per
\* key, over every save the rows already present keep their name and
\* their key, and so every association of a search term committed by any
\* run, under whichever category, carries the key of the one row of that
\* term.
C18_StableKeys ==
    [][ /\ OneRowPerKey(db'.categories, LAMBDA r : r.category_id,
                        LAMBDA r : r.category_name)
        /\ OneRowPerKey(db'.searches, LAMBDA r : r.search_id,
                        LAMBDA r : r.search_term)
        /\ \A i \in 1..Len(db.categories) :
              i <= Len(db'.categories) /\ db'.categories[i] = db.categories[i]
        /\ \A i \in 1..Len(db.searches) :
              i <= Len(db'.searches) /\ db'.searches[i] = db.searches[i]
        /\ \A n \in 1..Len(runs') : \A p \in TreePairs(runs'[n].tree) :
              \E i \in 1..Len(db'.searches) :
                  /\ db'.searches[i].search_term = p[1]
                  /\ \E a \in 1..Len(db'.searches_jobs) :
                        /\ db'.searches_jobs[a].search_id = db'.searches[i].search_id
                        /\ db'.searches_jobs[a].job_id = p[2] ]_vars

\* C18 witness: the first run held one search term under both categories,
\* the second run held it again, and the term has its one row next to
\* the rows of other terms.
C18_Witness ==
    /\ Len(runs) = 2
    /\ \E t \in TreeTerms(runs[1].tree) :
          /\ Cardinality(CategoriesWith(runs[1].tree, t)) = 2
          /\ t \in TreeTerms(runs[2].tree)
          /\ Cardinality({i \in 1..Len(db.searches) :
                             db.searches[i].search_term = t}) = 1
    /\ Len(db.searches) >= 2
    /\ Len(db.categories) = 2

(***************************************************************************)
(* Properties of saveJobsToFile.                                           *)
(***************************************************************************)
\* C14: after saveJobsToFile has succeeded the file holds exactly the
\* serialization of the tree of the execution that wrote it, whatever the
\* file held before.
C14_FileIsSerialization ==
    mainPc = "done" => file = Encode(jobGroups)


(***************************************************************************)
(* Properties of the two mains of scraper.go.                              *)
(***************************************************************************)
\* C22: when main of the concurrent scraper has called saveJobsToFile,
\* jobs holds the record of every fetch that succeeded, as often as it was
\* fetched, and nothing else.
C22_JobsHoldsEveryRecordOnce ==
    mainPc \in {"done", "fatal"} =>
        /\ Len(jobs) = Cardinality(Succeeded(1))
        /\ \A i \in Succeeded(1) :
              Cardinality({n \in 1..Len(jobs) : jobs[n] = tasks[1][i].job})
              = Cardinality({j \in Succeeded(1) : tasks[1][j].job = tasks[1][i].job})
        /\ \A n \in 1..Len(jobs) : \E i \in Succeeded(1) : tasks[1][i].job = jobs[n]

\* The identifiers main of the sequential scraper has announced a fetch for.
Fetching ==
    MapSeq(LAMBDA l : l[3],
           SelectSeq(printed, LAMBDA l : l[1] = "stdout" /\ l[2] = "Fetching"))

\* C23: the sequential scraper is never brought down by a detail fetch
\* that failed, and when it has ended after a listing without errors it
\* has fetched every identifier of the listing.
C23_FailedFetchDoesNotAbort ==
    /\ mainPc # "panic"
    /\ (mainPc = "done" /\ ~Failed(1)) => Fetching = MapSeq(UrnToJobID, SeqListing)

(***************************************************************************)
(* Properties of createBatches.                                            *)
(***************************************************************************)
\* The total description length of a batch.
BatchChars(b) == SumSeq([i \in 1..Len(b) |-> jobCharCount(b[i])])

\* C24: every batch createBatches returns has a total description length
\* of at most (MAX_TOKENS_PER_REQUEST - SYSTEM_OVERHEAD_TOKENS) *
\* TOKEN_TO_CHAR_RATIO characters.
C24_BatchesWithinBudget ==
    mainPc = "process" =>
        \A n \in 1..Len(batches) :
            BatchChars(batches[n])
            <= (MAX_TOKENS_PER_REQUEST - SYSTEM_OVERHEAD_TOKENS) * TOKEN_TO_CHAR_RATIO

\* C25: the batches createBatches returns, concatenated in order, are the
\* input list; none of them is empty; and an empty input gives no batch.
C25_BatchesPartitionInput ==
    mainPc = "process" =>
        /\ Flatten(batches) = jobInputs
        /\ \A n \in 1..Len(batches) : batches[n] # <<>>
        /\ jobInputs = <<>> => batches = <<>>

\* C25 witness: three jobs went into two batches, the first closed when
\* the second job would not fit and the second holding two jobs.
C25_Witness ==
    /\ mainPc = "process"
    /\ Len(jobInputs) = 3
    /\ Len(batches) = 2
    /\ Len(batches[1]) = 1
    /\ Len(batches[2]) = 2
    /\ BatchChars(batches[2]) = maxInputChars

====
